---------------------------- MODULE Spec2Model ----------------------------
(***************************************************************************)
(* A model of textProcessing/text_separator.py of LinguaHaru: the Batch     *)
(* Segmenter (stream_segment_json / get_next_segment / update_source_file), *)
(* the Glossary Matcher (find_terms_with_hashtable), the Unit Splitter      *)
(* (split_into_sentences, split_long_sentence,                              *)
(* split_by_sentences_and_combine, split_text_by_token_limit) and the       *)
(* Recombination Engine (recombine_split_jsons).                            *)
(*                                                                         *)
(* Text is a sequence of one-character strings.  The tokenizer (tiktoken,   *)
(* an external library) is modelled as one token per element of such a      *)
(* sequence; the serialized forms keep one element per lexical item.        *)
(* Python's 0-based list positions are 1-based sequence positions here.     *)
(***************************************************************************)
EXTENDS Integers, Sequences, FiniteSets, TLC

VARIABLES
    src,              \* the input JSON file (json_file_path): a list of cells
    max_token,        \* the max_token argument of stream_segment_json
    prompts,          \* <<system_prompt, user_prompt, previous_prompt, previous_text>>
    glossary_entries, \* what load_glossary returns for the run's glossary
    working,          \* the working-copy file "<base>_translating<ext>"
    gen,              \* the closure and frame of the generator get_next_segment
    emitted,          \* history: every batch handed to the caller, over all runs
    recorded,         \* positions of emitted whose translation the caller has saved
    crashes,          \* how many times the process was interrupted so far
    op,               \* which pure function the function specifications have applied
    arg,              \* its arguments
    ret               \* its result

vars == <<src, max_token, prompts, glossary_entries, working, gen, emitted,
          recorded, crashes, op, arg, ret>>

segVars == <<src, max_token, prompts, glossary_entries, working, gen, emitted,
             recorded, crashes>>

fnVars == <<op, arg, ret>>

(***************************************************************************)
(* Bounds of the model.                                                    *)
(***************************************************************************)
MaxUnits == 3

MaxCrashes == 2

(***************************************************************************)
(* Generic helpers.                                                        *)
(***************************************************************************)
Range(s) == {s[k] : k \in DOMAIN s}

RECURSIVE Flatten(_)
Flatten(ss) == IF ss = <<>> THEN <<>> ELSE Head(ss) \o Flatten(Tail(ss))

SeqMax(a, b) == IF a >= b THEN a ELSE b

\* Python's  t in s  for strings: t is a contiguous substring of s.
IsSubstring(t, s) ==
    \E k \in 0..(Len(s) - Len(t)) : SubSeq(s, k + 1, k + Len(t)) = t

\* Python's str.strip(): leading and trailing whitespace removed.
IsSpace(c) == c = " "

RECURSIVE LStrip(_)
LStrip(s) == IF s # <<>> /\ IsSpace(Head(s)) THEN LStrip(Tail(s)) ELSE s

RECURSIVE RStrip(_)
RStrip(s) ==
    IF s # <<>> /\ IsSpace(s[Len(s)]) THEN RStrip(SubSeq(s, 1, Len(s) - 1)) ELSE s

Strip(s) == RStrip(LStrip(s))

(***************************************************************************)
(* Tokenizer oracle: num_tokens_from_string, and encode / decode.          *)
(***************************************************************************)
num_tokens_from_string(string) == Len(string)

\* json.dumps(prompt, ensure_ascii=False) of a string: the text in quotes.
JsonDumpsStr(s) == <<"\"">> \o s \o <<"\"">>

\* json.dumps(segment_dict, ensure_ascii=False, indent=4): the braces and, for
\* each entry in insertion order, its key str(count) followed by its value.
RECURSIVE JsonDumpsEntries(_)
JsonDumpsEntries(d) ==
    IF d = <<>> THEN <<>>
    ELSE <<ToString(Head(d)[1])>> \o Head(d)[2] \o JsonDumpsEntries(Tail(d))

JsonDumpsDict(d) == <<"{">> \o JsonDumpsEntries(d) \o <<"}">>

\* The fenced block: the opening fence, the JSON object, the closing fence.
create_segment_output(segment_dict) ==
    <<"fence_json">> \o JsonDumpsDict(segment_dict) \o <<"fence">>

(***************************************************************************)
(* Glossary Matcher.                                                       *)
(***************************************************************************)
\* term_dict = {src: dst for src, dst in glossary_entries}: keys in order of
\* first insertion, each with the value of its last occurrence.
RECURSIVE DictKeys(_, _)
DictKeys(entries, seen) ==
    IF entries = <<>> THEN <<>>
    ELSE IF Head(entries)[1] \in seen THEN DictKeys(Tail(entries), seen)
    ELSE <<Head(entries)[1]>> \o DictKeys(Tail(entries), seen \cup {Head(entries)[1]})

DictGet(entries, key) ==
    LET hits == {k \in DOMAIN entries : entries[k][1] = key}
        last == CHOOSE k \in hits : \A j \in hits : j <= k
    IN  entries[last][2]

\* sorted(keys, key=len, reverse=True): stable, longest first.
RECURSIVE InsertByLenDesc(_, _)
InsertByLenDesc(t, sorted) ==
    IF sorted = <<>> THEN <<t>>
    ELSE IF Len(Head(sorted)) >= Len(t)
         THEN <<Head(sorted)>> \o InsertByLenDesc(t, Tail(sorted))
         ELSE <<t>> \o sorted

RECURSIVE SortByLenDesc(_)
SortByLenDesc(keys) ==
    IF keys = <<>> THEN <<>>
    ELSE LET n == Len(keys)
         IN  InsertByLenDesc(keys[n], SortByLenDesc(SubSeq(keys, 1, n - 1)))

\* The test of the loop at line 110.
TermMatches(term, text, found_terms) ==
    IsSubstring(term, text) /\ term \notin found_terms

RECURSIVE FindLoop(_, _, _, _)
FindLoop(sorted_terms, text, entries, found_terms) ==
    IF sorted_terms = <<>> THEN <<>>
    ELSE LET term == Head(sorted_terms)
         IN  IF TermMatches(term, text, found_terms)
             THEN << <<term, DictGet(entries, term)>> >>
                    \o FindLoop(Tail(sorted_terms), text, entries, found_terms \cup {term})
             ELSE FindLoop(Tail(sorted_terms), text, entries, found_terms)

find_terms_with_hashtable(text, entries) ==
    FindLoop(SortByLenDesc(DictKeys(entries, {})), text, entries, {})


(***************************************************************************)
(* Batch Segmenter: the pure parts.                                        *)
(***************************************************************************)
\* A progress value last_count / max_count is kept as the pair
\* <<last_count, max_count>>; 1.0 is <<1, 1>>.
FracLeq(p, q) == p[1] * q[2] <= q[1] * p[2]

FracIsOne(p) == p[1] = p[2]

\* current_segment_dict | line_dict, and dict.update: an existing key keeps its
\* place and takes the new value, a new key is appended.
DictMerge(d, line) ==
    IF \E k \in DOMAIN d : d[k][1] = line[1]
    THEN [k \in DOMAIN d |-> IF d[k][1] = line[1] THEN line ELSE d[k]]
    ELSE Append(d, line)

DictKeySet(d) == {d[k][1] : k \in DOMAIN d}

RECURSIVE SetMax(_)
SetMax(S) ==
    IF S = {} THEN 0
    ELSE LET x == CHOOSE y \in S : TRUE
         IN  SeqMax(x, SetMax(S \ {x}))

\* max((cell.get("count", 0) for cell in cell_data), default=0)
MaxCount(cells) == SetMax({cells[k].count : k \in DOMAIN cells})

RECURSIVE SumTokens(_)
SumTokens(ps) ==
    IF ps = <<>> THEN 0
    ELSE (IF Head(ps) # <<>> THEN num_tokens_from_string(JsonDumpsStr(Head(ps))) ELSE 0)
         + SumTokens(Tail(ps))

\* Lines 156-160: the overhead of the non-empty prompts.
PromptTokenCount(ps) == SumTokens(ps)

\* Line 190 (and 221): prompt overhead plus the tokens of the serialized batch.
NewTokenCount(prompt_token_count, segment_dict) ==
    prompt_token_count + num_tokens_from_string(create_segment_output(segment_dict))

calculate_progress(segment_dict, max_count) ==
    IF segment_dict = <<>> THEN <<1, 1>>
    ELSE LET last_count == SetMax(DictKeySet(segment_dict))
         IN  IF max_count > 0 THEN <<last_count, max_count>> ELSE <<1, 1>>

\* updated_data = [cell for i, cell in enumerate(cell_data) if i not in processed_indices]
FilterUnprocessed(file_data, processed_indices) ==
    LET keep == {k \in DOMAIN file_data : k \notin processed_indices}
        F[k \in 0..Len(file_data)] ==
            IF k = 0 THEN <<>>
            ELSE IF k \in keep THEN Append(F[k - 1], file_data[k]) ELSE F[k - 1]
    IN  F[Len(file_data)]

\* update_source_file without the rewrite: the file stays as it is.
UpdateSourceFileSkipped(file, processed_indices) == file

\* update_source_file: reads the file as it is on disk now, drops the positions
\* listed in processed_indices, and replaces the file.
update_source_file(file, processed_indices) ==
    [exists |-> TRUE, data |-> FilterUnprocessed(file.data, processed_indices)]

\* Lines 193-197 and 226-230: the unit's matches not yet in the batch's terms.
RECURSIVE AddTerms(_, _)
AddTerms(current_glossary_terms, found_terms) ==
    IF found_terms = <<>> THEN current_glossary_terms
    ELSE AddTerms(
            IF \E k \in DOMAIN current_glossary_terms :
                   current_glossary_terms[k] = Head(found_terms)
            THEN current_glossary_terms
            ELSE Append(current_glossary_terms, Head(found_terms)),
            Tail(found_terms))

UnitTerms(current_glossary_terms, value, ge) ==
    IF ge # <<>>
    THEN AddTerms(current_glossary_terms, find_terms_with_hashtable(value, ge))
    ELSE current_glossary_terms

\* IsSkipped with the blank test left out: no cell is skipped.
IsSkippedNever(value) == FALSE

\* Line 184: the cell is skipped (and marked processed) when its value is
\* empty after strip().  Every cell of the model has a count.
IsSkipped(value) == value = <<>>

\* ExceedsBudget off by one: a batch one token over the budget is kept.
ExceedsBudgetOffByOne(new_token_count, mt) == new_token_count > mt + 1

\* ExceedsBudget answering yes for every candidate: each unit starts a batch.
ExceedsBudgetAlways(new_token_count, mt) == TRUE

\* Line 199: the candidate batch does not fit.
ExceedsBudget(new_token_count, mt) == new_token_count > mt

\* Lines 218-230: the cell at g.i seeds a new batch.
StartNewSegment(g, ge) ==
    LET value == Strip(g.cell_data[g.i].value)
    IN  [g EXCEPT !.current_segment_dict = << <<g.cell_data[g.i].count, value>> >>,
                  !.current_processed_indices = {g.i},
                  !.current_glossary_terms = UnitTerms(@, value, ge),
                  !.i = @ + 1]

\* Lines 232-235: the cell at g.i joins the running batch.
AddToSegment(g, line_dict) ==
    [g EXCEPT !.current_segment_dict = DictMerge(@, line_dict),
              !.current_processed_indices = @ \cup {g.i},
              !.i = @ + 1]

\* Lines 178-235: the for loop, from position g.i up to the next yield (the
\* generator is then suspended at line 213 with g.i the cell that triggered the
\* flush) or to the end of the list.
RECURSIVE SegmentLoop(_, _, _)
SegmentLoop(g, mt, ge) ==
    IF g.i > Len(g.cell_data) THEN [g EXCEPT !.pc = "loop_end"]
    ELSE
      LET cell == g.cell_data[g.i]
          value == Strip(cell.value)
          line_dict == <<cell.count, value>>
          new_token_count ==
              NewTokenCount(g.prompt_token_count,
                            DictMerge(g.current_segment_dict, line_dict))
          g1 == [g EXCEPT !.current_glossary_terms = UnitTerms(@, value, ge)]
      IN  IF g.i \in g.processed_indices
          THEN SegmentLoop([g EXCEPT !.i = @ + 1], mt, ge)
          ELSE IF IsSkipped(value)
          THEN SegmentLoop([g EXCEPT !.processed_indices = @ \cup {g.i},
                                     !.i = @ + 1], mt, ge)
          ELSE IF ExceedsBudget(new_token_count, mt)
          THEN IF g.current_segment_dict # <<>>
               THEN [g1 EXCEPT !.processed_indices = @ \cup g.current_processed_indices,
                               !.pc = "yield_213"]
               ELSE SegmentLoop(StartNewSegment(g1, ge), mt, ge)
          ELSE SegmentLoop(AddToSegment(g1, line_dict), mt, ge)

\* Lines 237-247: after the loop, a non-empty running batch is the final one.
FinalSegment(g) ==
    IF g.current_segment_dict # <<>>
    THEN [g EXCEPT !.processed_indices = @ \cup g.current_processed_indices,
                   !.pc = "yield_247"]
    ELSE [g EXCEPT !.pc = "done"]

\* One next() on the generator: from where it is suspended to its next yield,
\* or to its end.
RunToYield(g, mt, ge) ==
    IF g.pc = "yield_247" THEN [g EXCEPT !.pc = "done"]
    ELSE LET g0 == IF g.pc = "yield_213"
                   THEN StartNewSegment([g EXCEPT !.current_glossary_terms = <<>>], ge)
                   ELSE g
             g1 == SegmentLoop(g0, mt, ge)
         IN  IF g1.pc = "yield_213" THEN g1 ELSE FinalSegment(g1)

\* RemoveWorkingCopy without the os.remove: the file stays.
RemoveWorkingCopyKept(file) == file

\* Lines 249-254: the working copy is removed when the generator ends.
RemoveWorkingCopy(file) == [exists |-> FALSE, data |-> <<>>]

\* Lines 139-140: the input is copied only when no working copy exists.
OpenWorkingCopy(file, input) ==
    IF file.exists THEN file ELSE [exists |-> TRUE, data |-> input]

NoGen ==
    [pc |-> "none", cell_data |-> <<>>, max_count |-> 0, prompt_token_count |-> 0,
     processed_indices |-> {}, i |-> 1, current_segment_dict |-> <<>>,
     current_processed_indices |-> {}, current_glossary_terms |-> <<>>]

\* Lines 142-175: the closure a call of stream_segment_json builds, and the
\* locals of a generator that has not run yet.
NewGen(cell_data, ps) ==
    [NoGen EXCEPT !.pc = "created",
                  !.cell_data = cell_data,
                  !.max_count = MaxCount(cell_data),
                  !.prompt_token_count = PromptTokenCount(ps)]

\* A yielded batch: (segment_output, progress, current_glossary_terms), with
\* the run that produced it.
BatchOf(g, run) ==
    [entries |-> g.current_segment_dict,
     progress |-> calculate_progress(g.current_segment_dict, g.max_count),
     terms |-> g.current_glossary_terms,
     tokens |-> NewTokenCount(g.prompt_token_count, g.current_segment_dict),
     run |-> run]

(***************************************************************************)
(* Batch Segmenter: inputs, state and actions.                             *)
(***************************************************************************)
\* Unit values: empty, blank, and texts of one, two and four tokens (the last
\* with a leading blank that strip() removes).
ValueSet ==
    { <<>>, <<" ">>, <<"n">>, <<"n", "y">>, <<" ", "y", "y", "y", "y">> }

\* The extraction step numbers the cells 1, 2, ... in order.
CellsOf(values) == [k \in DOMAIN values |-> [count |-> k, value |-> values[k]]]

SrcChoices == {CellsOf(vs) : vs \in UNION {[1..n -> ValueSet] : n \in 0..MaxUnits}}

MaxTokenChoices == {8, 10}

PromptChoices ==
    { << <<>>, <<>>, <<>>, <<>> >>, << <<"p">>, <<>>, <<>>, <<>> >> }

GlossaryChoices ==
    { <<>>, << <<<<"n">>, "N">>, <<<<"n", "y">>, "NY">> >> }

NoFile == [exists |-> FALSE, data |-> <<>>]

FnIdle == op = "none" /\ arg = <<>> /\ ret = <<>>

Init ==
    /\ src \in SrcChoices
    /\ max_token \in MaxTokenChoices
    /\ prompts \in PromptChoices
    /\ glossary_entries \in GlossaryChoices
    /\ working = NoFile
    /\ gen = NoGen
    /\ emitted = <<>>
    /\ recorded = {}
    /\ crashes = 0
    /\ FnIdle

Suspended == gen.pc \in {"yield_213", "yield_247"}

Running == gen.pc \in {"created", "yield_213", "yield_247"}

\* The batch the caller holds and has not saved yet.
Outstanding ==
    /\ emitted # <<>>
    /\ Len(emitted) \notin recorded
    /\ emitted[Len(emitted)].run = crashes + 1

\* stream_segment_json(...)() on a non-empty working copy: the copy is made if
\* absent, loaded, and the generator is created.
StreamSegmentJson ==
    /\ gen.pc = "none"
    /\ OpenWorkingCopy(working, src).data # <<>>
    /\ working' = OpenWorkingCopy(working, src)
    /\ gen' = NewGen(working'.data, prompts)
    /\ UNCHANGED <<src, max_token, prompts, glossary_entries, emitted, recorded,
                   crashes, fnVars>>

\* Lines 146-150: an empty working copy is removed and ValueError is raised.
StreamSegmentJsonEmpty ==
    /\ gen.pc = "none"
    /\ OpenWorkingCopy(working, src).data = <<>>
    /\ working' = RemoveWorkingCopy(OpenWorkingCopy(working, src))
    /\ gen' = [NoGen EXCEPT !.pc = "failed"]
    /\ UNCHANGED <<src, max_token, prompts, glossary_entries, emitted, recorded,
                   crashes, fnVars>>

\* next() that ends at a yield: the working copy is rewritten, then the batch
\* is handed to the caller.
NextYield ==
    /\ Running
    /\ ~Outstanding
    /\ LET g == RunToYield(gen, max_token, glossary_entries)
       IN  /\ g.pc \in {"yield_213", "yield_247"}
           /\ gen' = g
           /\ working' = update_source_file(working, g.processed_indices)
           /\ emitted' = Append(emitted, BatchOf(g, crashes + 1))
    /\ UNCHANGED <<src, max_token, prompts, glossary_entries, recorded, crashes,
                   fnVars>>

\* next() that ends the generator (StopIteration): the working copy is removed.
NextStop ==
    /\ Running
    /\ ~Outstanding
    /\ LET g == RunToYield(gen, max_token, glossary_entries)
       IN  /\ g.pc = "done"
           /\ gen' = g
           /\ working' = RemoveWorkingCopy(working)
    /\ UNCHANGED <<src, max_token, prompts, glossary_entries, emitted, recorded,
                   crashes, fnVars>>

\* The caller saves the translation of the batch it holds.
CallerRecord ==
    /\ Suspended
    /\ Outstanding
    /\ recorded' = recorded \cup {Len(emitted)}
    /\ UNCHANGED <<src, max_token, prompts, glossary_entries, working, gen,
                   emitted, crashes, fnVars>>

\* The process dies, or the caller stops pulling: the generator is gone, the
\* files stay as they are.
Crash ==
    /\ Running
    /\ crashes < MaxCrashes
    /\ gen' = NoGen
    /\ crashes' = crashes + 1
    /\ UNCHANGED <<src, max_token, prompts, glossary_entries, working, emitted,
                   recorded, fnVars>>

Next ==
    \/ StreamSegmentJson
    \/ StreamSegmentJsonEmpty
    \/ NextYield
    \/ NextStop
    \/ CallerRecord
    \/ Crash

Spec == Init /\ [][Next]_vars

(***************************************************************************)
(* Batch Segmenter: what the claims speak of.                              *)
(***************************************************************************)
BatchIds(b) == [k \in DOMAIN b.entries |-> b.entries[k][1]]

EmittedIds == [k \in DOMAIN emitted |-> BatchIds(emitted[k])]

IdsIn(batches) == UNION {Range(batches[k]) : k \in DOMAIN batches}

NonBlankIds == {src[k].count : k \in {j \in DOMAIN src : Strip(src[j].value) # <<>>}}

BlankIds == {src[k].count : k \in {j \in DOMAIN src : Strip(src[j].value) = <<>>}}

\* The multiset of the elements of a sequence.
BagOf(seq) ==
    [x \in Range(seq) |-> Cardinality({k \in DOMAIN seq : seq[k] = x})]

\* The batches (by identity) of one run over the input that is pulled to its
\* end without interruption.
RECURSIVE CollectIds(_, _, _)
CollectIds(g, mt, ge) ==
    LET g1 == RunToYield(g, mt, ge)
    IN  IF g1.pc = "done" THEN <<>>
        ELSE <<[k \in DOMAIN g1.current_segment_dict |-> g1.current_segment_dict[k][1]]>>
             \o CollectIds(g1, mt, ge)

UninterruptedIds ==
    IF src = <<>> THEN <<>>
    ELSE CollectIds(NewGen(src, prompts), max_token, glossary_entries)

Finished == gen.pc \in {"done", "failed"}

\* The batches of the run in progress (or of the last run).
LastRun == {k \in DOMAIN emitted : emitted[k].run = crashes + 1}

RecordedIds == UNION {Range(BatchIds(emitted[k])) : k \in recorded}

LastRunIds == UNION {Range(BatchIds(emitted[k])) : k \in LastRun}

\* C1: once the job has been pulled to its end, over any interruptions and
\* resumptions, the batches emitted by all the runs are the same multiset of
\* batches (by identity) as those of one uninterrupted run, no identity is in
\* two different batches, and every unit with a non-blank value is in a batch.
IdempotentResume ==
    Finished =>
        /\ BagOf(EmittedIds) = BagOf(UninterruptedIds)
        /\ \A j, k \in DOMAIN emitted :
               j # k => Range(EmittedIds[j]) \cap Range(EmittedIds[k]) = {}
        /\ NonBlankIds \subseteq IdsIn(EmittedIds)

\* C2: after any crash and resumption, once the resumed run has ended, every
\* unit with a non-blank value is in a batch the caller has saved or in a batch
\* the resumed run emitted: a batch handed over and lost before it was saved is
\* emitted again.
AtLeastOnceDelivery ==
    Finished => NonBlankIds \subseteq (RecordedIds \cup LastRunIds)

OversizeAlone(k) ==
    /\ Strip(src[k].value) # <<>>
    /\ NewTokenCount(PromptTokenCount(prompts),
                     << <<src[k].count, Strip(src[k].value)>> >>) > max_token

RECURSIVE NonBlankSeq(_)
NonBlankSeq(cells) ==
    IF cells = <<>> THEN <<>>
    ELSE (IF Strip(Head(cells).value) # <<>> THEN <<Head(cells).count>> ELSE <<>>)
         \o NonBlankSeq(Tail(cells))

\* C4: when an uninterrupted run from a fresh working state has ended, the
\* emitted batches, one after the other, list the non-blank units exactly once
\* each and in input order (so no blank unit is in a batch), each with its
\* trimmed value, and no batch is empty.
UninterruptedRunPartition ==
    (crashes = 0 /\ gen.pc = "done") =>
        /\ Flatten(EmittedIds) = NonBlankSeq(src)
        /\ \A k \in DOMAIN emitted : emitted[k].entries # <<>>
        /\ \A k \in DOMAIN emitted : \A j \in DOMAIN emitted[k].entries :
               LET e == emitted[k].entries[j]
               IN  e[2] = Strip(src[e[1]].value)

\* An uninterrupted run over an input with a blank unit has ended after
\* several batches.
PartitionWitness ==
    /\ crashes = 0
    /\ gen.pc = "done"
    /\ Len(emitted) >= 2
    /\ BlankIds # {}

\* C5: within one run the progress values never decrease, and when the run
\* has ended its last batch has progress 1.0.
ProgressMonotoneEndsAtOne ==
    /\ \A j, k \in LastRun :
           j < k => FracLeq(emitted[j].progress, emitted[k].progress)
    /\ (gen.pc = "done" /\ LastRun # {}) =>
           FracIsOne(emitted[Len(emitted)].progress)

\* C8: when the generator has ended the working copy is gone; while a run is
\* in progress, and after an interruption, it is on disk.
WorkingCopyLifecycle ==
    /\ gen.pc = "done" => ~working.exists
    /\ Running => working.exists
    /\ (gen.pc = "none" /\ crashes > 0) => working.exists

\* A run that was interrupted and resumed has emitted a batch and ended, and
\* the working copy is gone.
LifecycleWitness ==
    /\ gen.pc = "done"
    /\ crashes > 0
    /\ LastRun # {}
    /\ ~working.exists

\* The identities of the cells of a file.
FileIds(file) == {file.data[k].count : k \in DOMAIN file.data}

\* C11: after every flush (while the generator is suspended at a yield) the
\* working copy holds exactly the cells of the run's list that are neither in
\* an emitted batch nor skipped as blank so far: the cell that triggered the
\* flush and every cell after it, and no cell of an emitted batch.
WorkingStateHoldsRemaining ==
    Suspended =>
        /\ working.exists
        /\ working.data = FilterUnprocessed(gen.cell_data, gen.processed_indices)

PairsOccurringIn(b) ==
    { <<term, DictGet(glossary_entries, term)>> :
        term \in {t \in Range(DictKeys(glossary_entries, {})) :
                     \E k \in DOMAIN b.entries : IsSubstring(t, b.entries[k][2])} }

\* C13: the glossary terms delivered with a batch are exactly the pairs whose
\* source term occurs in the value of a unit of that batch, each once.
BatchGlossaryTerms ==
    \A k \in DOMAIN emitted :
        /\ Range(emitted[k].terms) = PairsOccurringIn(emitted[k])
        /\ \A i, j \in DOMAIN emitted[k].terms :
               i # j => emitted[k].terms[i] # emitted[k].terms[j]

\* C16: a batch of two or more units is within max_token, a batch beyond
\* max_token has exactly one unit, and the first unit of a batch that follows
\* another batch of the same run did not fit into that batch.
BatchBoundaryTight ==
    /\ \A k \in DOMAIN emitted :
           Len(emitted[k].entries) >= 2 => emitted[k].tokens <= max_token
    /\ \A k \in DOMAIN emitted :
           emitted[k].tokens > max_token => Len(emitted[k].entries) = 1
    /\ \A k \in DOMAIN emitted :
           (k > 1 /\ emitted[k].run = emitted[k - 1].run) =>
               NewTokenCount(PromptTokenCount(prompts),
                             Append(emitted[k - 1].entries, emitted[k].entries[1]))
                   > max_token

\* One run has emitted a batch of several units and, next, a batch of one
\* unit beyond the budget.
BoundaryWitness ==
    \E k \in DOMAIN emitted :
        /\ k + 1 \in DOMAIN emitted
        /\ emitted[k].run = emitted[k + 1].run
        /\ Len(emitted[k].entries) >= 2
        /\ emitted[k + 1].tokens > max_token

(***************************************************************************)
(* Sentence Splitter, Clause Splitter and Unit Splitter.                   *)
(***************************************************************************)
\* The sentence endings, the internal punctuation and the closing quotes and
\* brackets of the two patterns (lines 364 and 403), one of each kind.
IsSentenceEnd(c) == c = "!"

IsInternalPunct(c) == c = ","

IsCloser(c) == c = ")"

IsSentenceStart(c) == IsSentenceEnd(c)

\* How many of the leading characters of s are closers.
RECURSIVE CloserRun(_)
CloserRun(s) ==
    IF s # <<>> /\ IsCloser(Head(s)) THEN 1 + CloserRun(Tail(s)) ELSE 0

\* The position of the first character of s of the given kind, 0 if none.
RECURSIVE FirstPunct(_, _, _)
FirstPunct(s, k, internal) ==
    IF k > Len(s) THEN 0
    ELSE IF (IF internal THEN IsInternalPunct(s[k]) ELSE IsSentenceEnd(s[k])) THEN k
    ELSE FirstPunct(s, k + 1, internal)

\* How often re.split lists each delimiter: the pattern handed to it is the
\* punctuation pattern, itself a group, wrapped in a second group (lines 367
\* and 406), and re.split returns the text of every group of each match.
DelimiterCopies == 2

RECURSIVE Repeat(_, _)
Repeat(x, n) == IF n = 0 THEN <<>> ELSE <<x>> \o Repeat(x, n - 1)

\* re.split(f'({pattern})', text): the text before each match, the groups of
\* the match, ..., the text after the last match.
RECURSIVE ReSplit(_, _)
ReSplit(text, internal) ==
    LET p == FirstPunct(text, 1, internal)
    IN  IF p = 0 THEN <<text>>
        ELSE LET q == p + CloserRun(SubSeq(text, p + 1, Len(text)))
             IN  <<SubSeq(text, 1, p - 1)>>
                 \o Repeat(SubSeq(text, p, q), DelimiterCopies)
                 \o ReSplit(SubSeq(text, q + 1, Len(text)), internal)

\* re.match(pattern, part): the part begins with a match of the pattern.
ReMatch(part, internal) ==
    /\ part # <<>>
    /\ IF internal THEN IsInternalPunct(part[1]) ELSE IsSentenceEnd(part[1])

\* Lines 374-384: the while loop of split_into_sentences.
RECURSIVE SentenceLoop(_, _, _, _)
SentenceLoop(parts, i, current_sentence, sentences) ==
    IF i > Len(parts) THEN [sentences |-> sentences, current_sentence |-> current_sentence]
    ELSE LET cur == current_sentence \o parts[i]
         IN  IF i + 1 <= Len(parts) /\ ReMatch(parts[i + 1], FALSE)
             THEN SentenceLoop(parts, i + 2, <<>>, Append(sentences, cur \o parts[i + 1]))
             ELSE SentenceLoop(parts, i + 1, cur, sentences)

split_into_sentences(text) ==
    LET r == SentenceLoop(ReSplit(text, FALSE), 1, <<>>, <<>>)
        all == IF Strip(r.current_sentence) # <<>>
               THEN Append(r.sentences, r.current_sentence)
               ELSE r.sentences
    IN  SelectSeq(all, LAMBDA x : Strip(x) # <<>>)

\* encoding.encode and encoding.decode of a slice, lines 429-434.
RECURSIVE TokenSlices(_, _)
TokenSlices(encoded_part, max_tokens) ==
    IF encoded_part = <<>> THEN <<>>
    ELSE IF Len(encoded_part) <= max_tokens THEN <<encoded_part>>
    ELSE <<SubSeq(encoded_part, 1, max_tokens)>>
         \o TokenSlices(SubSeq(encoded_part, max_tokens + 1, Len(encoded_part)), max_tokens)

\* Line 423-437: what the running chunk is after it was appended to chunks
\* because the next part does not fit and is sliced: it is left as it was.
ChunkAfterSlicing(current_chunk) == current_chunk

\* Lines 413-444: the while loop of split_long_sentence.
RECURSIVE ClauseLoop(_, _, _, _, _, _)
ClauseLoop(parts, i, current_chunk, current_tokens, chunks, max_tokens) ==
    IF i > Len(parts) THEN [chunks |-> chunks, current_chunk |-> current_chunk]
    ELSE
      LET part == parts[i]
          punct == IF i + 1 <= Len(parts) /\ ReMatch(parts[i + 1], TRUE)
                   THEN parts[i + 1] ELSE <<>>
          part_with_punct == part \o punct
          part_tokens == num_tokens_from_string(part_with_punct)
          step == IF punct # <<>> THEN 2 ELSE 1
          flushed == IF current_chunk # <<>> THEN Append(chunks, current_chunk) ELSE chunks
      IN  IF current_tokens + part_tokens > max_tokens
          THEN IF part_tokens > max_tokens
               THEN ClauseLoop(parts, i + step, ChunkAfterSlicing(current_chunk),
                               current_tokens,
                               flushed \o TokenSlices(part_with_punct, max_tokens),
                               max_tokens)
               ELSE ClauseLoop(parts, i + step, part_with_punct, part_tokens,
                               flushed, max_tokens)
          ELSE ClauseLoop(parts, i + step, current_chunk \o part_with_punct,
                          current_tokens + part_tokens, chunks, max_tokens)

split_long_sentence(sentence, max_tokens) ==
    IF num_tokens_from_string(sentence) <= max_tokens THEN <<sentence>>
    ELSE LET r == ClauseLoop(ReSplit(sentence, TRUE), 1, <<>>, 0, <<>>, max_tokens)
         IN  IF r.current_chunk # <<>> THEN Append(r.chunks, r.current_chunk)
             ELSE r.chunks

\* Lines 464-488: the for loop of split_by_sentences_and_combine.
RECURSIVE CombineLoop(_, _, _, _, _)
CombineLoop(sentences, current_chunk, current_tokens, chunks, max_tokens) ==
    IF sentences = <<>> THEN [chunks |-> chunks, current_chunk |-> current_chunk]
    ELSE
      LET sentence == Head(sentences)
          sentence_tokens == num_tokens_from_string(sentence)
      IN  IF sentence_tokens > max_tokens
          THEN CombineLoop(Tail(sentences), <<>>, 0,
                           (IF current_chunk # <<>> THEN Append(chunks, current_chunk)
                            ELSE chunks) \o split_long_sentence(sentence, max_tokens),
                           max_tokens)
          ELSE IF current_tokens + sentence_tokens > max_tokens /\ current_chunk # <<>>
          THEN CombineLoop(Tail(sentences), sentence, sentence_tokens,
                           Append(chunks, current_chunk), max_tokens)
          ELSE CombineLoop(Tail(sentences), current_chunk \o sentence,
                           current_tokens + sentence_tokens, chunks, max_tokens)

split_by_sentences_and_combine(text, max_tokens) ==
    LET r == CombineLoop(split_into_sentences(text), <<>>, 0, <<>>, max_tokens)
    IN  IF r.current_chunk # <<>> THEN Append(r.chunks, r.current_chunk) ELSE r.chunks

\* An item of the split file.  chunk is <<index, total>>, or <<>> for an item
\* that has no "chunk" field.
SplitItem(item, value, chunk) ==
    [count |-> item.count, value |-> value, original_count |-> item.count,
     chunk |-> chunk]

\* Lines 317-341: the items one input item expands to.
ExpandItem(item, max_tokens) ==
    IF num_tokens_from_string(item.value) <= max_tokens
    THEN <<SplitItem(item, item.value, <<>>)>>
    ELSE LET chunks == split_by_sentences_and_combine(item.value, max_tokens)
         IN  [k \in DOMAIN chunks |-> SplitItem(item, chunks[k], <<k, Len(chunks)>>)]

RECURSIVE ExpandAll(_, _)
ExpandAll(json_data, max_tokens) ==
    IF json_data = <<>> THEN <<>>
    ELSE ExpandItem(Head(json_data), max_tokens) \o ExpandAll(Tail(json_data), max_tokens)

\* Renumber left out: every item keeps the count it was given.
RenumberKept(result) == result

\* Lines 343-345: the counts are renumbered 1, 2, ... in result order.
Renumber(result) == [k \in DOMAIN result |-> [result[k] EXCEPT !.count = k]]

split_text_by_token_limit(json_data, max_tokens) ==
    Renumber(ExpandAll(json_data, max_tokens))

(***************************************************************************)
(* Recombination Engine.  The "type" field, copied through unread, is left  *)
(* out.  None in a chunks list is the empty text: the join at line 592      *)
(* drops both.                                                             *)
(***************************************************************************)
\* Lines 542-546: "index/total", and 1/1 for an item without a chunk field.
ChunkInfo(item) == IF item.chunk = <<>> THEN <<1, 1>> ELSE item.chunk

\* Position of the entry with the given key in an insertion-ordered dict kept
\* as a sequence of records with a count field; 0 if absent.
KeyIndex(dict, key) ==
    IF \E k \in DOMAIN dict : dict[k].count = key
    THEN CHOOSE k \in DOMAIN dict : dict[k].count = key
    ELSE 0

\* Lines 549-551: an item whose value is empty is passed over.
HasContent(item) == item.value # <<>>

\* Lines 553-566: the item's content is put at its chunk position in the
\* entry of its count.
PlaceChunk(count_chunks, item) ==
    LET info == ChunkInfo(item)
        chunk_num == info[1]
        total_chunks == info[2]
        at == KeyIndex(count_chunks, item.count)
        entry == IF at = 0
                 THEN [count |-> item.count,
                       chunks |-> Repeat(<<>>, total_chunks),
                       original_count |-> item.original_count]
                 ELSE IF Len(count_chunks[at].chunks) < total_chunks
                 THEN [count_chunks[at] EXCEPT !.chunks =
                          @ \o Repeat(<<>>, total_chunks - Len(count_chunks[at].chunks))]
                 ELSE count_chunks[at]
        placed == IF 1 <= chunk_num /\ chunk_num <= Len(entry.chunks)
                  THEN [entry EXCEPT !.chunks[chunk_num] = item.value]
                  ELSE entry
    IN  IF at = 0 THEN Append(count_chunks, placed)
        ELSE [count_chunks EXCEPT ![at] = placed]

\* Lines 531-566: step 1, the source chunks by count.
RECURSIVE CollectChunks(_, _)
CollectChunks(src_data, count_chunks) ==
    IF src_data = <<>> THEN count_chunks
    ELSE CollectChunks(Tail(src_data),
                       IF HasContent(Head(src_data))
                       THEN PlaceChunk(count_chunks, Head(src_data))
                       ELSE count_chunks)

\* Lines 568-585: step 2, the translations by count; entries that share a
\* count are concatenated in the order met.
RECURSIVE CollectTranslations(_, _)
CollectTranslations(translated_data, translated_by_count) ==
    IF translated_data = <<>> THEN translated_by_count
    ELSE LET item == Head(translated_data)
             at == KeyIndex(translated_by_count, item.count)
         IN  CollectTranslations(Tail(translated_data),
                IF at = 0
                THEN Append(translated_by_count,
                            [count |-> item.count, original |-> item.original,
                             translated |-> item.translated])
                ELSE [translated_by_count EXCEPT
                         ![at].original = @ \o item.original,
                         ![at].translated = @ \o item.translated])

\* TranslatedText without the default of line 595: a missing translation
\* yields no text.
TranslatedTextNoFallback(count, original_text, translated_by_count) ==
    IF KeyIndex(translated_by_count, count) # 0
    THEN translated_by_count[KeyIndex(translated_by_count, count)].translated
    ELSE <<>>

\* Lines 594-597: the translation of a count, the original text by default.
TranslatedText(count, original_text, translated_by_count) ==
    IF KeyIndex(translated_by_count, count) # 0
    THEN translated_by_count[KeyIndex(translated_by_count, count)].translated
    ELSE original_text

\* Lines 590-610: step 3, the records by original_count.
RECURSIVE MergeByOriginalCount(_, _, _)
MergeByOriginalCount(count_chunks, translated_by_count, result) ==
    IF count_chunks = <<>> THEN result
    ELSE
      LET data == Head(count_chunks)
          original_text == Flatten(SelectSeq(data.chunks, LAMBDA c : c # <<>>))
          translated_text == TranslatedText(data.count, original_text, translated_by_count)
          at == KeyIndex(result, data.original_count)
      IN  MergeByOriginalCount(Tail(count_chunks), translated_by_count,
             IF at = 0
             THEN Append(result, [count |-> data.original_count,
                                  original |-> original_text,
                                  translated |-> translated_text])
             ELSE [result EXCEPT ![at].original = @ \o original_text,
                                 ![at].translated = @ \o translated_text])

\* Lines 615-622: sorted(result, key=get_count_key): stable, ascending count.
RECURSIVE InsertByCount(_, _)
InsertByCount(r, sorted) ==
    IF sorted = <<>> THEN <<r>>
    ELSE IF Head(sorted).count <= r.count
         THEN <<Head(sorted)>> \o InsertByCount(r, Tail(sorted))
         ELSE <<r>> \o sorted

RECURSIVE SortByCount(_)
SortByCount(result) ==
    IF result = <<>> THEN <<>>
    ELSE LET n == Len(result)
         IN  InsertByCount(result[n], SortByCount(SubSeq(result, 1, n - 1)))

recombine_split_jsons(src_data, translated_data) ==
    SortByCount(MergeByOriginalCount(CollectChunks(src_data, <<>>),
                                     CollectTranslations(translated_data, <<>>),
                                     <<>>))

(***************************************************************************)
(* The pure functions, each applied to inputs drawn from bounded sets.     *)
(***************************************************************************)
MaxTextLen == 3

MaxGlossary == 2

MaxSplitLen == 3

MaxSplitTokens == 2

MaxOrigins == 2

SeqsUpTo(S, n) == UNION {[1..k -> S] : k \in 0..n}

\* The Batch Segmenter is not running.
SegIdle ==
    /\ src = <<>>
    /\ max_token = 0
    /\ prompts = <<>>
    /\ glossary_entries = <<>>
    /\ working = NoFile
    /\ gen = NoGen
    /\ emitted = <<>>
    /\ recorded = {}
    /\ crashes = 0

\* ---- find_terms_with_hashtable ----
GlossTexts == SeqsUpTo({"n", "y", " "}, MaxTextLen)

GlossPairs ==
    { <<<<"n">>, "N">>, <<<<"n", "y">>, "NY">>, <<<<"y">>, "Y">>, <<<<"n">>, "N2">> }

InitGloss ==
    /\ SegIdle
    /\ op = "none"
    /\ arg \in [text : GlossTexts, entries : SeqsUpTo(GlossPairs, MaxGlossary)]
    /\ ret = <<>>

FindTerms ==
    /\ op = "none"
    /\ op' = "find_terms_with_hashtable"
    /\ ret' = find_terms_with_hashtable(arg.text, arg.entries)
    /\ UNCHANGED <<arg, segVars>>

SpecGloss == InitGloss /\ [][FindTerms]_vars

\* ---- split_text_by_token_limit, and the round trip through recombination ----
SplitTexts == SeqsUpTo({"a", "!", ",", ")", " "}, MaxSplitLen)

InitSplit ==
    /\ SegIdle
    /\ op = "none"
    /\ arg \in [value : SplitTexts, max_tokens : 1..MaxSplitTokens]
    /\ ret = <<>>

\* The translated file in which every sub-chunk is translated by itself.
SelfTranslation(split) ==
    [k \in DOMAIN split |->
        [count |-> split[k].count, original |-> split[k].value,
         translated |-> split[k].value]]

SplitText ==
    /\ op = "none"
    /\ op' = "split_text_by_token_limit"
    /\ ret' = [split |-> split_text_by_token_limit(CellsOf(<<arg.value>>), arg.max_tokens),
               recombined |-> <<>>]
    /\ UNCHANGED <<arg, segVars>>

RecombineSelf ==
    /\ op = "split_text_by_token_limit"
    /\ op' = "recombine_split_jsons"
    /\ ret' = [ret EXCEPT !.recombined =
                  recombine_split_jsons(ret.split, SelfTranslation(ret.split))]
    /\ UNCHANGED <<arg, segVars>>

NextSplit == SplitText \/ RecombineSelf

SpecSplit == InitSplit /\ [][NextSplit]_vars

\* ---- split_long_sentence ----
ClauseTexts == SeqsUpTo({"a", ",", ")", " "}, MaxSplitLen)

InitClause ==
    /\ SegIdle
    /\ op = "none"
    /\ arg \in [sentence : ClauseTexts, max_tokens : 1..MaxSplitTokens]
    /\ ret = <<>>

SplitLongSentence ==
    /\ op = "none"
    /\ op' = "split_long_sentence"
    /\ ret' = split_long_sentence(arg.sentence, arg.max_tokens)
    /\ UNCHANGED <<arg, segVars>>

SpecClause == InitClause /\ [][SplitLongSentence]_vars

\* ---- split_text_by_token_limit on a list of units ----
MaxItems == 3

\* Unit values: empty, short, with a sentence end, with a comma, and blank.
UnitValues ==
    { <<>>, <<"a">>, <<"a", "!", "a">>, <<"a", ",", "a", "a">>, <<" ", " ", " ">> }

InitExpand ==
    /\ SegIdle
    /\ op = "none"
    /\ arg \in [values : SeqsUpTo(UnitValues, MaxItems), max_tokens : 1..MaxSplitTokens]
    /\ ret = <<>>

ExpandUnits ==
    /\ op = "none"
    /\ op' = "split_text_by_token_limit"
    /\ ret' = split_text_by_token_limit(CellsOf(arg.values), arg.max_tokens)
    /\ UNCHANGED <<arg, segVars>>

SpecExpand == InitExpand /\ [][ExpandUnits]_vars

\* ---- recombine_split_jsons ----
\* The expanded source units: what the Unit Splitter makes of a list of units.
RecombValues ==
    { <<>>, <<" ">>, <<"a">>, <<"a", "a", "a">>, <<"a", ",", "a", "a">> }

RecombSources ==
    { split_text_by_token_limit(CellsOf(vs), MaxSplitTokens) :
        vs \in SeqsUpTo(RecombValues, MaxOrigins) \ {<<>>} }

\* The units that can come back translated: those the Batch Segmenter emits.
Translatable(src_data) ==
    {k \in DOMAIN src_data : Strip(src_data[k].value) # <<>>}

\* The translation the translating step returns for a text.
Translate(value) == <<"T">> \o value

TranslatedEntry(item) ==
    [count |-> item.count, original |-> item.value, translated |-> Translate(item.value)]

RECURSIVE EntriesOf(_, _)
EntriesOf(src_data, S) ==
    IF src_data = <<>> THEN <<>>
    ELSE (IF Head(src_data).count \in S THEN <<TranslatedEntry(Head(src_data))>> ELSE <<>>)
         \o EntriesOf(Tail(src_data), S)

\* The translated file: one entry for each unit of S, in order, and, when dup,
\* the first of them once more at the end.
TranslatedData(src_data, S, dup) ==
    LET es == EntriesOf(src_data, S)
    IN  IF dup /\ es # <<>> THEN Append(es, es[1]) ELSE es

InitRecomb ==
    /\ SegIdle
    /\ op = "none"
    /\ \E sd \in RecombSources : \E S \in SUBSET Translatable(sd) : \E dup \in BOOLEAN :
           /\ (dup => S # {})
           /\ arg = [src_data |-> sd, translated_data |-> TranslatedData(sd, S, dup)]
    /\ ret = <<>>

Recombine ==
    /\ op = "none"
    /\ op' = "recombine_split_jsons"
    /\ ret' = recombine_split_jsons(arg.src_data, arg.translated_data)
    /\ UNCHANGED <<arg, segVars>>

SpecRecomb == InitRecomb /\ [][Recombine]_vars

(***************************************************************************)
(* The pure functions: what the claims speak of.                           *)
(***************************************************************************)
ValuesOf(items) == [k \in DOMAIN items |-> items[k].value]

\* C6: for a unit whose value exceeds max_tokens, the values of the sub-chunks
\* of the Unit Splitter, concatenated in chunk order, are the unit's value, and
\* recombining them with each sub-chunk translated by itself gives one record
\* whose original and translated texts are the unit's value.
SplitRoundTrip ==
    (op # "none" /\ num_tokens_from_string(arg.value) > arg.max_tokens) =>
        /\ Flatten(ValuesOf(ret.split)) = arg.value
        /\ op = "recombine_split_jsons" =>
               ret.recombined =
                   <<[count |-> 1, original |-> arg.value, translated |-> arg.value]>>

\* The positions at which term occurs in text.
Occurrences(term, text) ==
    {p \in 1..(Len(text) - Len(term) + 1) : SubSeq(text, p, p + Len(term) - 1) = term}

\* term occurs in text, and only inside occurrences of longer terms of matched.
OnlyInsideLonger(term, text, matched) ==
    /\ Occurrences(term, text) # {}
    /\ \A p \in Occurrences(term, text) :
           \E long \in matched :
               /\ Len(long) > Len(term)
               /\ \E q \in Occurrences(long, text) :
                      q <= p /\ p + Len(term) <= q + Len(long)

\* C7: the Glossary Matcher returns the matched pairs by descending length of
\* the source term, each source term at most once, and no pair whose source
\* term occurs in the text only inside a longer matched source term.
GlossaryPrecedence ==
    op = "find_terms_with_hashtable" =>
        /\ \A j, k \in DOMAIN ret : j < k => Len(ret[j][1]) >= Len(ret[k][1])
        /\ \A j, k \in DOMAIN ret : j # k => ret[j][1] # ret[k][1]
        /\ \A k \in DOMAIN ret :
               ~OnlyInsideLonger(ret[k][1], arg.text, {ret[j][1] : j \in DOMAIN ret})

OriginsOf(src_data) == {src_data[k].original_count : k \in DOMAIN src_data}

\* C9: the Recombination Engine returns one record for each distinct
\* originIdentity of the expanded source units, in ascending order of count.
OneRecordPerOrigin ==
    op = "recombine_split_jsons" =>
        /\ {ret[k].count : k \in DOMAIN ret} = OriginsOf(arg.src_data)
        /\ \A j, k \in DOMAIN ret : j < k => ret[j].count < ret[k].count

\* The translated text the translated file holds for a count: the translated
\* fields of its entries, in file order; and whether it holds any.
IsTranslated(count) == \E k \in DOMAIN arg.translated_data : arg.translated_data[k].count = count

TranslationOf(count) ==
    Flatten(ValuesOf(
        [k \in DOMAIN SelectSeq(arg.translated_data, LAMBDA e : e.count = count) |->
            [value |-> SelectSeq(arg.translated_data, LAMBDA e : e.count = count)[k].translated]]))

\* The translated text expected for an origin: for each of its sub-chunks in
\* source order, its translation when there is one, its own text otherwise.
ExpectedTranslated(origin) ==
    LET units == SelectSeq(arg.src_data, LAMBDA u : u.original_count = origin)
    IN  Flatten([k \in DOMAIN units |->
                    IF IsTranslated(units[k].count) THEN TranslationOf(units[k].count)
                    ELSE units[k].value])

\* C10: recombination returns, for every origin with a non-empty sub-chunk, a
\* record whose translated text is the concatenation, in source order, of each
\* sub-chunk's translation when present and of its original text otherwise.
MissingTranslationFallback ==
    op = "recombine_split_jsons" =>
        /\ \A k \in DOMAIN ret : ret[k].translated = ExpectedTranslated(ret[k].count)
        /\ \A k \in DOMAIN arg.src_data :
               arg.src_data[k].value # <<>> =>
                   \E j \in DOMAIN ret : ret[j].count = arg.src_data[k].original_count

\* Recombination has run on a split unit of which one sub-chunk came back
\* translated and another did not.
FallbackWitness ==
    /\ op = "recombine_split_jsons"
    /\ \E j, k \in DOMAIN arg.src_data :
           /\ arg.src_data[j].original_count = arg.src_data[k].original_count
           /\ arg.src_data[j].value # <<>>
           /\ arg.src_data[k].value # <<>>
           /\ IsTranslated(arg.src_data[j].count)
           /\ ~IsTranslated(arg.src_data[k].count)
           /\ \E r \in DOMAIN ret : ret[r].count = arg.src_data[j].original_count

\* The texts the unit at position i of the input expands to: its value when
\* within the budget, its sub-chunks otherwise; each paired with i.
PiecesOf(i) ==
    LET value == arg.values[i]
        texts == IF num_tokens_from_string(value) <= arg.max_tokens THEN <<value>>
                 ELSE split_by_sentences_and_combine(value, arg.max_tokens)
    IN  [k \in DOMAIN texts |-> <<i, texts[k]>>]

\* The output units that carry the given originIdentity, in output order.
UnitsOfOrigin(i) == SelectSeq(ret, LAMBDA u : u.original_count = i)

\* C14: the output identities of the Unit Splitter are 1..n in output order;
\* the outputs, in order, are the pieces of the first input unit, then those of
\* the second, ..., each with the identity of its input unit as originIdentity;
\* a unit within the budget is one output with its value and no chunk
\* position; the sub-chunks of a split unit carry 1/total .. total/total.
ExpansionIdentities ==
    op = "split_text_by_token_limit" =>
        /\ \A k \in DOMAIN ret : ret[k].count = k
        /\ [k \in DOMAIN ret |-> <<ret[k].original_count, ret[k].value>>]
               = Flatten([i \in DOMAIN arg.values |-> PiecesOf(i)])
        /\ \A i \in DOMAIN arg.values :
               IF num_tokens_from_string(arg.values[i]) <= arg.max_tokens
               THEN /\ Len(UnitsOfOrigin(i)) = 1
                    /\ UnitsOfOrigin(i)[1].value = arg.values[i]
                    /\ UnitsOfOrigin(i)[1].chunk = <<>>
               ELSE \A k \in DOMAIN UnitsOfOrigin(i) :
                        UnitsOfOrigin(i)[k].chunk = <<k, Len(UnitsOfOrigin(i))>>

\* The Unit Splitter has split a unit into several sub-chunks and passed a
\* later unit through, whose identity is no longer its originIdentity.
ExpansionWitness ==
    /\ op = "split_text_by_token_limit"
    /\ \E j, k \in DOMAIN ret :
           /\ j < k
           /\ ret[j].chunk # <<>>
           /\ ret[j].chunk[2] >= 2
           /\ ret[k].chunk = <<>>
           /\ ret[k].count # ret[k].original_count

\* C15: for a sentence beyond max_tokens, the chunks of the Clause Splitter,
\* one after the other, are a contiguous stretch of the sentence: consecutive
\* pieces in left-to-right order, no text in two chunks or repeated later.
ClauseChunksInOrder ==
    (op = "split_long_sentence"
        /\ num_tokens_from_string(arg.sentence) > arg.max_tokens) =>
        IsSubstring(Flatten(ret), arg.sentence)


=============================================================================
